---------------------------- MODULE Spec2Model ----------------------------
(***************************************************************************)
(* Model of the WhatsApp business-directory bot (src/app.py) and of its    *)
(* PostgreSQL catalogue (src/postgresql_config.py).                        *)
(*                                                                         *)
(* A Python str is modelled as a sequence of one-character strings, so     *)
(* that strip, lower, split, re.sub and re.match are computed character by *)
(* character, the way the interpreter computes them.                       *)
(***************************************************************************)
EXTENDS Integers, Sequences, FiniteSets

(***************************************************************************)
(* Characters and the Python string primitives used by src/app.py          *)
(***************************************************************************)
UpperCase == <<"A","B","C","D","E","F","G","H","I","J","K","L","M",
               "N","O","P","Q","R","S","T","U","V","W","X","Y","Z">>

LowerCase == <<"a","b","c","d","e","f","g","h","i","j","k","l","m",
               "n","o","p","q","r","s","t","u","v","w","x","y","z">>

Digits == {"0","1","2","3","4","5","6","7","8","9"}

Whitespace == {" ", "\t", "\n", "\r"}

Range(s) == { s[i] : i \in DOMAIN s }

UpperSet == Range(UpperCase)

LowerSet == Range(LowerCase)

IsUpper(c) == c \in UpperSet

IsLower(c) == c \in LowerSet

IsAlpha(c) == IsUpper(c) \/ IsLower(c)

\* the lower-case letter of every upper-case letter
ToLower ==
    [c \in UpperSet |-> LowerCase[CHOOSE i \in DOMAIN UpperCase : UpperCase[i] = c]]

\* one character of str.lower()
LowerChar(c) == IF IsUpper(c) THEN ToLower[c] ELSE c

\* str.lower()
lower(s) == [i \in DOMAIN s |-> LowerChar(s[i])]

\* s[a:b] of Python with 1-based inclusive bounds a..b (empty when a > b)
Slice(s, a, b) == [i \in 1..(b - a + 1) |-> s[a + i - 1]]

\* str.strip(): removes the leading and the trailing whitespace
RECURSIVE strip(_)
strip(s) ==
    IF s = << >> THEN s
    ELSE IF s[1] \in Whitespace THEN strip(Tail(s))
    ELSE IF s[Len(s)] \in Whitespace THEN strip(SubSeq(s, 1, Len(s) - 1))
    ELSE s

\* str.startswith(prefix)
startswith(s, prefix) ==
    /\ Len(prefix) <= Len(s)
    /\ \A i \in DOMAIN prefix : s[i] = prefix[i]

\* str.isdigit(): non-empty and every character a digit
isdigit(s) == s # << >> /\ \A i \in DOMAIN s : s[i] \in Digits

\* str.split(sep) for a one-character separator: the list of the pieces
\* between the separators, empty pieces included
RECURSIVE split(_, _)
split(s, sep) ==
    LET Seps == { i \in DOMAIN s : s[i] = sep }
    IN  IF Seps = {} THEN << s >>
        ELSE LET p == CHOOSE i \in Seps : \A j \in Seps : i <= j
             IN  << Slice(s, 1, p - 1) >> \o split(Slice(s, p + 1, Len(s)), sep)

\* sep.join(parts)
RECURSIVE join(_, _)
join(sep, parts) ==
    IF parts = << >> THEN << >>
    ELSE IF Len(parts) = 1 THEN parts[1]
    ELSE parts[1] \o sep \o join(sep, Tail(parts))

(***************************************************************************)
(* validate_phone and validate_email                                       *)
(***************************************************************************)
MinPhoneLen == 10

\* validate_phone looking for the '+' anywhere in the cleaned string
validate_phone_plus_anywhere(phone) ==
    LET cleaned == SelectSeq(phone, LAMBDA c : c \in Digits \/ c = "+")
    IN  /\ Len(cleaned) >= MinPhoneLen
        /\ ((\E i \in DOMAIN cleaned : cleaned[i] = "+") \/ isdigit(cleaned))

\* re.sub(r'[^\d+]', '', phone); len(cleaned) >= 10 and
\* (cleaned.startswith('+') or cleaned.isdigit())
validate_phone(phone) ==
    LET cleaned == SelectSeq(phone, LAMBDA c : c \in Digits \/ c = "+")
    IN  /\ Len(cleaned) >= MinPhoneLen
        /\ (startswith(cleaned, <<"+">>) \/ isdigit(cleaned))

\* the character classes of the pattern of validate_email
EmailLocalChar(c) == IsAlpha(c) \/ c \in Digits \/ c \in {".", "_", "%", "+", "-"}

EmailDomainChar(c) == IsAlpha(c) \/ c \in Digits \/ c \in {".", "-"}

MinTldLen == 2

\* the positions where '$' matches: the end of the string, and just before
\* a newline that ends the string
DollarPositions(s) ==
    {Len(s)} \cup (IF s # << >> /\ s[Len(s)] = "\n" THEN {Len(s) - 1} ELSE {})

\* re.match(r'^[a-zA-Z0-9._%+-]+@[a-zA-Z0-9.-]+\.[a-zA-Z]{2,}$', email):
\* some '@' at position at and some '.' at position dot split the string
\* into local part, domain and final label.
validate_email(email) ==
    \E n \in DollarPositions(email) :
      \E at \in 1..n : \E dot \in (at + 1)..n :
        /\ email[at] = "@"
        /\ email[dot] = "."
        /\ at >= 2
        /\ \A i \in 1..(at - 1) : EmailLocalChar(email[i])
        /\ dot >= at + 2
        /\ \A i \in (at + 1)..(dot - 1) : EmailDomainChar(email[i])
        /\ n - dot >= MinTldLen
        /\ \A i \in (dot + 1)..n : IsAlpha(email[i])


(***************************************************************************)
(* The state                                                               *)
(***************************************************************************)
VARIABLES
    user_sessions,  \* app.py: sender -> [step, data], the sessions in memory
    businesses,     \* the rows of table businesses, in insertion order
    clock,          \* the number of requests handled: CURRENT_TIMESTAMP
    request,        \* the form of the last request handled: [From, Body]
    response,       \* what the last request returned: [resp, exc, calls]
    threads,        \* worker -> the request it is handling and where it is
    session_obj,    \* sender -> the identity of the dict under its key
    detached        \* identity -> a session dict that is under no key any
                    \* more and that a thread still refers to

vars == << user_sessions, businesses, clock, request, response,
           threads, session_obj, detached >>

(***************************************************************************)
(* DatabaseManager (src/postgresql_config.py).  A query either runs or     *)
(* raises inside psycopg2, whatever the arguments: every method yields the *)
(* set of its possible outcomes [raised, businesses, value].               *)
(***************************************************************************)
Outcome(raised, rows, value) ==
    [raised |-> raised, businesses |-> rows, value |-> value]

\* add_business with the address and the phone exchanged in the VALUES tuple
add_business_swapped(rows, now, business_data) ==
    LET id  == Len(rows) + 1
        row == [ id            |-> id,
                 name          |-> business_data.name,
                 name_lower    |-> lower(business_data.name),
                 address       |-> business_data.phone,
                 phone         |-> business_data.address,
                 email         |-> business_data.email,
                 keywords      |-> business_data.keywords,
                 registered_by |-> business_data.registered_by,
                 registered_at |-> now,
                 status        |-> "active" ]
    IN  { Outcome(FALSE, Append(rows, row), id), Outcome(TRUE, rows, 0) }

\* add_business leaving the row behind when it raises
add_business_no_rollback(rows, now, business_data) ==
    LET id  == Len(rows) + 1
        row == [ id            |-> id,
                 name          |-> business_data.name,
                 name_lower    |-> lower(business_data.name),
                 address       |-> business_data.address,
                 phone         |-> business_data.phone,
                 email         |-> business_data.email,
                 keywords      |-> business_data.keywords,
                 registered_by |-> business_data.registered_by,
                 registered_at |-> now,
                 status        |-> "active" ]
    IN  { Outcome(FALSE, Append(rows, row), id), Outcome(TRUE, Append(rows, row), 0) }

\* INSERT INTO businesses ... RETURNING id, in one transaction: committed
\* with the id of the new row, or rolled back and the exception re-raised
add_business(rows, now, business_data) ==
    LET id  == Len(rows) + 1
        row == [ id            |-> id,
                 name          |-> business_data.name,
                 name_lower    |-> lower(business_data.name),
                 address       |-> business_data.address,
                 phone         |-> business_data.phone,
                 email         |-> business_data.email,
                 keywords      |-> business_data.keywords,
                 registered_by |-> business_data.registered_by,
                 registered_at |-> now,
                 status        |-> "active" ]
    IN  { Outcome(FALSE, Append(rows, row), id), Outcome(TRUE, rows, 0) }

\* string LIKE pattern: '%' matches any run of characters, '_' any one
\* character, a backslash takes the next character literally
RECURSIVE Like(_, _)
Like(s, p) ==
    IF p = << >> THEN s = << >>
    ELSE IF p[1] = "%"
         THEN Like(s, Tail(p)) \/ (s # << >> /\ Like(Tail(s), p))
    ELSE IF p[1] = "\\" /\ Len(p) >= 2
         THEN s # << >> /\ s[1] = p[2] /\ Like(Tail(s), Tail(Tail(p)))
    ELSE s # << >> /\ (p[1] = "_" \/ p[1] = s[1]) /\ Like(Tail(s), Tail(p))

IsAlnum(c) == IsAlpha(c) \/ c \in Digits

\* the words of a text: the maximal runs of letters and digits, lowercased
\* (the parser of to_tsvector and plainto_tsquery; the stemming and the stop
\* words of the 'english' configuration are left out)
RECURSIVE Words(_)
Words(s) ==
    LET Starts == { i \in DOMAIN s : IsAlnum(s[i]) }
    IN  IF Starts = {} THEN {}
        ELSE LET a == CHOOSE i \in Starts : \A j \in Starts : i <= j
                 Ends == { i \in a..Len(s) :
                             /\ \A j \in a..i : IsAlnum(s[j])
                             /\ (i = Len(s) \/ ~IsAlnum(s[i + 1])) }
                 b == CHOOSE i \in Ends : TRUE
             IN  { lower(Slice(s, a, b)) } \cup Words(Slice(s, b + 1, Len(s)))

\* to_tsvector('english', name || ' ' || address) @@
\* plainto_tsquery('english', query): every word of the query is a word of
\* the document; a query without words matches nothing
FullTextMatch(row, query) ==
    /\ Words(query) # {}
    /\ Words(query) \subseteq Words(row.name \o <<" ">> \o row.address)

\* ORDER BY: the elements of the set S as a sequence, x ahead of y whenever
\* <<x, y>> is in before (a strict order on S)
RECURSIVE OrderBy(_, _)
OrderBy(S, before) ==
    IF S = {} THEN << >>
    ELSE LET first == CHOOSE x \in S : \A y \in S \ {x} : <<y, x>> \notin before
         IN  << first >> \o OrderBy(S \ {first}, before)

\* LIMIT n of SQL, rows[:n] of Python
Limit(rows, n) == IF Len(rows) <= n THEN rows ELSE SubSeq(rows, 1, n)

\* the CASE of the SELECT in search_businesses
relevance_score(row, query) ==
    IF lower(query) \in Range(row.keywords) THEN 3
    ELSE IF Like(row.name_lower, <<"%">> \o lower(query) \o <<"%">>) THEN 2
    ELSE 1

\* search_businesses: the rows, or [] when the query raised
search_businesses_db(rows, query, limit) ==
    LET hit(r) == /\ \/ lower(query) \in Range(r.keywords)
                     \/ Like(r.name_lower, <<"%">> \o lower(query) \o <<"%">>)
                     \/ FullTextMatch(r, query)
                  /\ r.status = "active"
        Before(a, b) ==
            \/ relevance_score(a, query) > relevance_score(b, query)
            \/ /\ relevance_score(a, query) = relevance_score(b, query)
               /\ a.registered_at > b.registered_at
        sel   == { r \in Range(rows) : hit(r) }
        found == Limit(OrderBy(sel, { p \in sel \X sel : Before(p[1], p[2]) }), limit)
    IN  { Outcome(FALSE, rows, found), Outcome(TRUE, rows, << >>) }

\* get_business_count: the count, or 0 when the query raised
get_business_count(rows) ==
    { Outcome(FALSE, rows,
              Cardinality({ i \in DOMAIN rows : rows[i].status = "active" })),
      Outcome(TRUE, rows, 0) }

\* get_recent_businesses: [{name, registered_at}], or [] when it raised
get_recent_businesses(rows, limit) ==
    LET Before(a, b) == a.registered_at > b.registered_at
        sel   == { r \in Range(rows) : r.status = "active" }
        found == Limit(OrderBy(sel, { p \in sel \X sel : Before(p[1], p[2]) }), limit)
    IN  { Outcome(FALSE, rows,
                  [i \in DOMAIN found |->
                     [name |-> found[i].name,
                      registered_at |-> found[i].registered_at]]),
          Outcome(TRUE, rows, << >>) }

\* the order of two characters in the collation of ORDER BY keyword
Collation == <<" ", "%", "+", "-", ".", "@", "_",
               "0","1","2","3","4","5","6","7","8","9">> \o LowerCase

Rank(c) ==
    IF c \in Range(Collation)
    THEN CHOOSE i \in DOMAIN Collation : Collation[i] = c
    ELSE 0

\* a < b for two strings, character by character
RECURSIVE StrLess(_, _)
StrLess(a, b) ==
    IF b = << >> THEN FALSE
    ELSE IF a = << >> THEN TRUE
    ELSE IF a[1] = b[1] THEN StrLess(Tail(a), Tail(b))
    ELSE Rank(a[1]) < Rank(b[1])

\* get_popular_keywords: [{keyword, count}], or [] when the query raised
get_popular_keywords(rows, limit) ==
    LET active == { i \in DOMAIN rows : rows[i].status = "active" }
        kws == UNION { Range(rows[i].keywords) : i \in active }
        \* unnest(keywords): one line per row and position
        unnest == UNION { { <<i, j>> : j \in DOMAIN rows[i].keywords } : i \in active }
        freq(k) == Cardinality({ u \in unnest : rows[u[1]].keywords[u[2]] = k })
        groups == { [keyword |-> k, count |-> freq(k)] : k \in kws }
        Before(a, b) == \/ a.count > b.count
                        \/ a.count = b.count /\ StrLess(a.keyword, b.keyword)
        found == Limit(OrderBy(groups,
                               { p \in groups \X groups : Before(p[1], p[2]) }),
                       limit)
    IN  { Outcome(FALSE, rows, found), Outcome(TRUE, rows, << >>) }

\* search_by_location: the rows, or [] when the query raised
search_by_location_db(rows, location_query, limit) ==
    LET hit(r) == /\ Like(lower(r.address),
                          <<"%">> \o lower(location_query) \o <<"%">>)
                  /\ r.status = "active"
        Before(a, b) == a.registered_at > b.registered_at
        sel   == { r \in Range(rows) : hit(r) }
        found == Limit(OrderBy(sel, { p \in sel \X sel : Before(p[1], p[2]) }), limit)
    IN  { Outcome(FALSE, rows, found), Outcome(TRUE, rows, << >>) }

(***************************************************************************)
(* The literals of src/app.py                                              *)
(***************************************************************************)
CANCEL == <<"c","a","n","c","e","l">>

SKIP == <<"s","k","i","p">>

REGISTER == <<"r","e","g","i","s","t","e","r">>

HELP == <<"h","e","l","p">>

START == <<"s","t","a","r","t">>

MENU == <<"m","e","n","u">>

CONTACT == <<"c","o","n","t","a","c","t">>

STATS == <<"s","t","a","t","s">>

NEAR == <<"n","e","a","r"," ">>

NOT_PROVIDED == <<"N","o","t"," ","p","r","o","v","i","d","e","d">>

COMMA_SPACE == <<",", " ">>

Steps == <<"name", "address", "phone", "email", "keywords">>

(***************************************************************************)
(* The handlers of src/app.py.  A handler yields the set of its possible   *)
(* results, one for every way its store calls can end:                     *)
(*   user_sessions, businesses  the state it leaves                        *)
(*   resp    the messages put in the MessagingResponse it was given        *)
(*   exc     the exception it lets out ("" when it returns)                *)
(*   calls   the store calls it made, in order, each with how it ended     *)
(***************************************************************************)
Result(sessions, rows, resp, exc, calls) ==
    [ user_sessions |-> sessions, businesses |-> rows, resp |-> resp,
      exc |-> exc, calls |-> calls ]

\* resp.message(...): kind names the text, info holds what is formatted in
Msg(kind, info) == [kind |-> kind, info |-> info]

\* one store call: the method, how it ended, and what it returned
Call(op, outcome) ==
    [op |-> op, raised |-> outcome.raised, value |-> outcome.value]

\* d[k] = v on a dict
SetKey(d, k, v) == [x \in DOMAIN d \cup {k} |-> IF x = k THEN v ELSE d[x]]

\* del d[k]
DelKey(d, k) == [x \in DOMAIN d \ {k} |-> d[x]]

EmptyDict == [x \in {} |-> << >>]

\* session['data'][field] = value, session['step'] = step, on the session
\* object that user_sessions[from_number] refers to
Advance(sessions, from_number, field, value, step) ==
    SetKey(sessions, from_number,
           [ step |-> step,
             data |-> SetKey(sessions[from_number].data, field, value) ])

start_registration(sessions, rows, from_number, resp) ==
    { Result(SetKey(sessions, from_number, [step |-> "name", data |-> EmptyDict]),
             rows, Append(resp, Msg("step1_prompt", << >>)), "", << >>) }

\* complete_registration without the session clean-up of its except branch
complete_registration_keeps_failed(sessions, rows, now, from_number, resp) ==
    LET failed(rs, calls) ==
            Result(sessions, rs,
                   Append(resp, Msg("registration_error", << >>)), "", calls)
        business_data == sessions[from_number].data
        business_doc ==
            [ name          |-> business_data["name"],
              address       |-> business_data["address"],
              phone         |-> business_data["phone"],
              email         |-> business_data["email"],
              keywords      |-> business_data["keywords"],
              registered_by |-> from_number ]
        done(o) ==
            IF o.raised
            THEN failed(o.businesses, << Call("add_business", o) >>)
            ELSE Result(DelKey(sessions, from_number), o.businesses,
                        Append(resp, Msg("confirmation",
                            [ name     |-> business_data["name"],
                              address  |-> business_data["address"],
                              phone    |-> business_data["phone"],
                              email    |-> business_data["email"],
                              keywords |-> join(COMMA_SPACE, business_data["keywords"]),
                              search   |-> business_data["keywords"][1],
                              business_id |-> o.value ])),
                        "", << Call("add_business", o) >>)
    IN  { done(o) : o \in add_business(rows, now, business_doc) }

\* complete_registration without the del of the session after the insert
complete_registration_keeps_committed(sessions, rows, now, from_number, resp) ==
    LET failed(rs, calls) ==
            Result(DelKey(sessions, from_number), rs,
                   Append(resp, Msg("registration_error", << >>)), "", calls)
        business_data == sessions[from_number].data
        business_doc ==
            [ name          |-> business_data["name"],
              address       |-> business_data["address"],
              phone         |-> business_data["phone"],
              email         |-> business_data["email"],
              keywords      |-> business_data["keywords"],
              registered_by |-> from_number ]
        done(o) ==
            IF o.raised
            THEN failed(o.businesses, << Call("add_business", o) >>)
            ELSE Result(sessions, o.businesses,
                        Append(resp, Msg("confirmation",
                            [ name     |-> business_data["name"],
                              address  |-> business_data["address"],
                              phone    |-> business_data["phone"],
                              email    |-> business_data["email"],
                              keywords |-> join(COMMA_SPACE, business_data["keywords"]),
                              search   |-> business_data["keywords"][1],
                              business_id |-> o.value ])),
                        "", << Call("add_business", o) >>)
    IN  { done(o) : o \in add_business(rows, now, business_doc) }

DocFields =={"name", "address", "phone", "email", "keywords"}

complete_registration(sessions, rows, now, from_number, resp) ==
    LET failed(rs, calls) ==
            \* except: clean up the session anyway, send the failure notice
            Result(DelKey(sessions, from_number), rs,
                   Append(resp, Msg("registration_error", << >>)), "", calls)
    IN  IF from_number \notin DOMAIN sessions
        THEN { failed(rows, << >>) }                       \* KeyError, line 310
        ELSE
        LET business_data == sessions[from_number].data
        IN  IF ~(DocFields \subseteq DOMAIN business_data)
            THEN { failed(rows, << >>) }                   \* KeyError, line 315
            ELSE
            LET business_doc ==
                    [ name          |-> business_data["name"],
                      address       |-> business_data["address"],
                      phone         |-> business_data["phone"],
                      email         |-> business_data["email"],
                      keywords      |-> business_data["keywords"],
                      registered_by |-> from_number ]
                done(o) ==
                    IF o.raised
                    THEN failed(o.businesses, << Call("add_business", o) >>)
                    ELSE IF business_data["keywords"] = << >>
                    THEN failed(o.businesses,              \* IndexError, line 344
                                << Call("add_business", o) >>)
                    ELSE Result(DelKey(sessions, from_number), o.businesses,
                                Append(resp, Msg("confirmation",
                                    [ name     |-> business_data["name"],
                                      address  |-> business_data["address"],
                                      phone    |-> business_data["phone"],
                                      email    |-> business_data["email"],
                                      keywords |-> join(COMMA_SPACE,
                                                       business_data["keywords"]),
                                      search   |-> business_data["keywords"][1],
                                      business_id |-> o.value ])),
                                "", << Call("add_business", o) >>)
            IN  { done(o) : o \in add_business(rows, now, business_doc) }

MinNameLen == 2

MinAddressLen == 10

MinKeywords == 2

\* the name step without the return after its warning
handle_name_step_no_return(sessions, rows, now, from_number, body, resp) ==
    LET warned == IF Len(strip(body)) < MinNameLen
                  THEN Append(resp, Msg("name_too_short", << >>))
                  ELSE resp
    IN  { Result(Advance(sessions, from_number, "name", strip(body), "address"),
                 rows, Append(warned, Msg("step2_prompt", strip(body))), "", << >>) }

\* if step == 'name'
handle_name_step(sessions, rows, now, from_number, body, resp) ==
    IF Len(strip(body)) < MinNameLen
    THEN { Result(sessions, rows, Append(resp, Msg("name_too_short", << >>)),
                  "", << >>) }
    ELSE { Result(Advance(sessions, from_number, "name", strip(body), "address"),
                  rows, Append(resp, Msg("step2_prompt", strip(body))), "", << >>) }

\* elif step == 'address'
handle_address_step(sessions, rows, now, from_number, body, resp) ==
    IF Len(strip(body)) < MinAddressLen
    THEN { Result(sessions, rows, Append(resp, Msg("address_too_short", << >>)),
                  "", << >>) }
    ELSE { Result(Advance(sessions, from_number, "address", strip(body), "phone"),
                  rows, Append(resp, Msg("step3_prompt", << >>)), "", << >>) }

\* the phone step going on to the keywords step
handle_phone_step_skips_email(sessions, rows, now, from_number, body, resp) ==
    IF ~validate_phone(body)
    THEN { Result(sessions, rows, Append(resp, Msg("phone_invalid", << >>)),
                  "", << >>) }
    ELSE { Result(Advance(sessions, from_number, "phone", strip(body), "keywords"),
                  rows, Append(resp, Msg("step4_prompt", << >>)), "", << >>) }

\* elif step == 'phone'
handle_phone_step(sessions, rows, now, from_number, body, resp) ==
    IF ~validate_phone(body)
    THEN { Result(sessions, rows, Append(resp, Msg("phone_invalid", << >>)),
                  "", << >>) }
    ELSE { Result(Advance(sessions, from_number, "phone", strip(body), "email"),
                  rows, Append(resp, Msg("step4_prompt", << >>)), "", << >>) }

\* the email step storing nothing for 'skip'
handle_email_step_skip_unstored(sessions, rows, now, from_number, body, resp) ==
    IF lower(body) = SKIP
    THEN { Result(SetKey(sessions, from_number,
                         [sessions[from_number] EXCEPT !.step = "keywords"]),
                  rows, Append(resp, Msg("step5_prompt", << >>)), "", << >>) }
    ELSE IF validate_email(body)
    THEN { Result(Advance(sessions, from_number, "email", strip(body), "keywords"),
                  rows, Append(resp, Msg("step5_prompt", << >>)), "", << >>) }
    ELSE { Result(sessions, rows, Append(resp, Msg("email_invalid", << >>)),
                  "", << >>) }

\* elif step == 'email'
handle_email_step(sessions, rows, now, from_number, body, resp) ==
    IF lower(body) = SKIP
    THEN { Result(Advance(sessions, from_number, "email", NOT_PROVIDED, "keywords"),
                  rows, Append(resp, Msg("step5_prompt", << >>)), "", << >>) }
    ELSE IF validate_email(body)
    THEN { Result(Advance(sessions, from_number, "email", strip(body), "keywords"),
                  rows, Append(resp, Msg("step5_prompt", << >>)), "", << >>) }
    ELSE { Result(sessions, rows, Append(resp, Msg("email_invalid", << >>)),
                  "", << >>) }

\* the keywords trimmed but not lowercased
parse_keywords_no_lower(body) ==
    LET pieces == split(body, ",")
        keywords_raw == [i \in DOMAIN pieces |-> strip(pieces[i])]
    IN  SelectSeq(keywords_raw, LAMBDA k : Len(k) > 1)

\* the keywords with the one-character tokens kept
parse_keywords_keeps_short(body) ==
    LET pieces == split(body, ",")
        keywords_raw == [i \in DOMAIN pieces |-> lower(strip(pieces[i]))]
    IN  SelectSeq(keywords_raw, LAMBDA k : Len(k) > 0)

\* [k.strip().lower() for k in body.split(',')], then the tokens longer
\* than one character
parse_keywords(body) ==
    LET pieces == split(body, ",")
        keywords_raw == [i \in DOMAIN pieces |-> lower(strip(pieces[i]))]
    IN  SelectSeq(keywords_raw, LAMBDA k : Len(k) > 1)

\* elif step == 'keywords'
handle_keywords_step(sessions, rows, now, from_number, body, resp) ==
    LET keywords == parse_keywords(body)
    IN  IF Len(keywords) < MinKeywords
        THEN { Result(sessions, rows, Append(resp, Msg("keywords_too_few", << >>)),
                      "", << >>) }
        ELSE complete_registration(
                 SetKey(sessions, from_number,
                        [ step |-> "keywords",
                          data |-> SetKey(sessions[from_number].data,
                                          "keywords", keywords) ]),
                 rows, now, from_number, resp)

\* the cancel test without lower()
handle_registration_step_case_sensitive(sessions, rows, now, from_number, body, resp) ==
    LET step == sessions[from_number].step
    IN  IF body = CANCEL
        THEN { Result(DelKey(sessions, from_number), rows,
                      Append(resp, Msg("cancelled", << >>)), "", << >>) }
        ELSE IF step = "name"
        THEN handle_name_step(sessions, rows, now, from_number, body, resp)
        ELSE IF step = "address"
        THEN handle_address_step(sessions, rows, now, from_number, body, resp)
        ELSE IF step = "phone"
        THEN handle_phone_step(sessions, rows, now, from_number, body, resp)
        ELSE IF step = "email"
        THEN handle_email_step(sessions, rows, now, from_number, body, resp)
        ELSE handle_keywords_step(sessions, rows, now, from_number, body, resp)

handle_registration_step(sessions, rows, now, from_number, body, resp) ==
    IF from_number \notin DOMAIN sessions
    THEN { Result(sessions, rows, resp, "KeyError", << >>) }       \* line 217
    ELSE
    LET step == sessions[from_number].step
    IN  IF lower(body) = CANCEL
        THEN { Result(DelKey(sessions, from_number), rows,
                      Append(resp, Msg("cancelled", << >>)), "", << >>) }
        ELSE IF step = "name"
        THEN handle_name_step(sessions, rows, now, from_number, body, resp)
        ELSE IF step = "address"
        THEN handle_address_step(sessions, rows, now, from_number, body, resp)
        ELSE IF step = "phone"
        THEN handle_phone_step(sessions, rows, now, from_number, body, resp)
        ELSE IF step = "email"
        THEN handle_email_step(sessions, rows, now, from_number, body, resp)
        ELSE IF step = "keywords"
        THEN handle_keywords_step(sessions, rows, now, from_number, body, resp)
        ELSE { Result(sessions, rows, resp, "", << >>) }           \* line 305

(***************************************************************************)
(* The presenters and the router                                           *)
(***************************************************************************)
SearchLimit == 10

DisplayLimit == 5

KeywordsShown == 3

RecentLimit == 3

PopularLimit == 5

\* the "... and N more results." line counting every result
More_counts_all(results) ==
    IF Len(results) > DisplayLimit THEN Len(results) ELSE 0

\* the "... and N more results." line: N, or 0 when the line is left out
More(results) ==
    IF Len(results) > DisplayLimit THEN Len(results) - DisplayLimit ELSE 0

\* the three db calls never raise (DatabaseManager swallows the error of a
\* query); the dates of the recent businesses are not part of the model
show_statistics(sessions, rows, resp) ==
    { Result(sessions, rows,
             Append(resp, Msg("stats",
                 [ total   |-> c.value,
                   recent  |-> [i \in DOMAIN r.value |-> r.value[i].name],
                   popular |-> k.value ])),
             "",
             << Call("get_business_count", c), Call("get_recent_businesses", r),
                Call("get_popular_keywords", k) >>) :
        c \in get_business_count(rows),
        r \in get_recent_businesses(rows, RecentLimit),
        k \in get_popular_keywords(rows, PopularLimit) }

search_by_location(sessions, rows, location, resp) ==
    LET entry(b) ==
            [ name |-> b.name, address |-> b.address, phone |-> b.phone,
              extra |-> IF b.keywords # << >>
                        THEN << [label |-> "keywords",
                                 text  |-> join(COMMA_SPACE,
                                                Limit(b.keywords, KeywordsShown))] >>
                        ELSE << >> ]
        reply(results) ==
            IF results # << >>
            THEN Msg("location_results",
                     [ query |-> location, found |-> Len(results),
                       shown |-> [i \in DOMAIN Limit(results, DisplayLimit) |->
                                    entry(results[i])],
                       more  |-> More(results) ])
            ELSE Msg("location_none", [query |-> location])
    IN  { Result(sessions, rows, Append(resp, reply(o.value)), "",
                 << Call("search_by_location", o) >>) :
            o \in search_by_location_db(rows, location, SearchLimit) }

search_businesses(sessions, rows, query, resp) ==
    LET entry(b) ==
            [ name |-> b.name, address |-> b.address, phone |-> b.phone,
              extra |-> IF b.email # NOT_PROVIDED
                        THEN << [label |-> "email", text |-> b.email] >>
                        ELSE << >> ]
        reply(results) ==
            IF results # << >>
            THEN Msg("search_results",
                     [ query |-> query, found |-> Len(results),
                       shown |-> [i \in DOMAIN Limit(results, DisplayLimit) |->
                                    entry(results[i])],
                       more  |-> More(results) ])
            ELSE Msg("search_none", [query |-> query])
    IN  { Result(sessions, rows, Append(resp, reply(o.value)), "",
                 << Call("search_businesses", o) >>) :
            o \in search_businesses_db(rows, query, SearchLimit) }

\* the router with the register command tested ahead of the session
route_register_first(sessions, rows, now, form) ==
    LET body        == strip(form.Body)
        from_number == form.From
        resp        == << >>
        body_lower  == lower(body)
    IN  IF body = << >>
        THEN { Result(sessions, rows, Append(resp, Msg("welcome", << >>)),
                      "", << >>) }
        ELSE IF body_lower = REGISTER
        THEN start_registration(sessions, rows, from_number, resp)
        ELSE IF from_number \in DOMAIN sessions
        THEN handle_registration_step(sessions, rows, now, from_number, body, resp)
        ELSE search_businesses(sessions, rows, body_lower, resp)

\* the router handing the body to the keyword search as typed
route_search_raw_body(sessions, rows, now, form) ==
    LET body        == strip(form.Body)
        from_number == form.From
        resp        == << >>
        body_lower  == lower(body)
    IN  IF body = << >>
        THEN { Result(sessions, rows, Append(resp, Msg("welcome", << >>)),
                      "", << >>) }
        ELSE IF from_number \in DOMAIN sessions
        THEN handle_registration_step(sessions, rows, now, from_number, body, resp)
        ELSE IF body_lower \in {HELP, START, MENU}
        THEN { Result(sessions, rows, Append(resp, Msg("help", << >>)), "", << >>) }
        ELSE IF body_lower = REGISTER
        THEN start_registration(sessions, rows, from_number, resp)
        ELSE IF body_lower = CONTACT
        THEN { Result(sessions, rows, Append(resp, Msg("contact", << >>)),
                      "", << >>) }
        ELSE IF body_lower = STATS
        THEN show_statistics(sessions, rows, resp)
        ELSE IF startswith(body_lower, NEAR)
        THEN search_by_location(sessions, rows,
                                strip(Slice(body_lower, 6, Len(body_lower))), resp)
        ELSE search_businesses(sessions, rows, body, resp)

\* the body of the try of whatsapp_webhook
route(sessions, rows, now, form) ==
    LET body        == strip(form.Body)
        from_number == form.From
        resp        == << >>
        body_lower  == lower(body)
    IN  IF body = << >>
        THEN { Result(sessions, rows, Append(resp, Msg("welcome", << >>)),
                      "", << >>) }
        ELSE IF from_number \in DOMAIN sessions
        THEN handle_registration_step(sessions, rows, now, from_number, body, resp)
        ELSE IF body_lower \in {HELP, START, MENU}
        THEN { Result(sessions, rows, Append(resp, Msg("help", << >>)), "", << >>) }
        ELSE IF body_lower = REGISTER
        THEN start_registration(sessions, rows, from_number, resp)
        ELSE IF body_lower = CONTACT
        THEN { Result(sessions, rows, Append(resp, Msg("contact", << >>)),
                      "", << >>) }
        ELSE IF body_lower = STATS
        THEN show_statistics(sessions, rows, resp)
        ELSE IF startswith(body_lower, NEAR)
        THEN search_by_location(sessions, rows,
                                strip(Slice(body_lower, 6, Len(body_lower))), resp)
        ELSE search_businesses(sessions, rows, body_lower, resp)

\* whatsapp_webhook: what the try returns, or, when an exception comes out
\* of it, a new MessagingResponse with the apology
whatsapp_webhook(sessions, rows, now, form) ==
    { IF r.exc # ""
      THEN Result(r.user_sessions, r.businesses, << Msg("apology", << >>) >>,
                  "", r.calls)
      ELSE r :
        r \in route(sessions, rows, now, form) }

(***************************************************************************)
(* The requests of the model                                               *)
(***************************************************************************)
Senders == {"A", "B"}

Bodies ==
    { << " " >>,                                              \* blank
      << "r","e","g","i","s","t","e","r" >>,                  \* register
      << " ", "C","a","n","c","e","l" >>,                     \* " Cancel"
      << "S","K","I","P" >>,                                  \* SKIP
      << "x" >>,                                              \* too short
      << "1","2"," ","M","a","i","n"," ","S","t" >>,          \* 12 Main St
      << "+","1","2","3","4","5","6","7","8","9","0" >>,      \* +1234567890
      << "a","@","b",".","c","o" >>,                          \* a@b.co
      << "A","b",","," ","c",",","d","e" >>,                  \* Ab, c,de
      << "s","t","a","t","s" >> }                             \* stats

MaxRequests == 7

(***************************************************************************)
(* The worker threads of the host.  A thread is idle or at one line of     *)
(* the handler; a thread that has read user_sessions[from_number] holds    *)
(* the identity of the dict it got, ref.                                   *)
(***************************************************************************)
Workers == {1, 2}

Idle ==
    [ pc |-> "idle", From |-> "", Body |-> << >>, ref |-> 0, step |-> "",
      field |-> "", value |-> << >>, doc |-> << >>, info |-> << >>, id |-> 0,
      calls |-> << >> ]

\* no request is being handled
NoThreads ==
    /\ threads = [w \in Workers |-> Idle]
    /\ session_obj = EmptyDict
    /\ detached = EmptyDict

(***************************************************************************)
(* The state machine: one request at a time, handled from its first line   *)
(* to its last before the next one starts; no thread is left holding a     *)
(* session dict, so the identities are not kept here                       *)
(***************************************************************************)
Init ==
    /\ NoThreads
    /\ user_sessions = EmptyDict
    /\ businesses = << >>
    /\ clock = 0
    /\ request = [From |-> "", Body |-> << >>]
    /\ response = [resp |-> << >>, exc |-> "", calls |-> << >>]

\* POST /webhook with form fields From and Body
Webhook(from, body) ==
    /\ clock < MaxRequests
    /\ \E r \in whatsapp_webhook(user_sessions, businesses, clock + 1,
                                 [From |-> from, Body |-> body]) :
         /\ user_sessions' = r.user_sessions
         /\ businesses' = r.businesses
         /\ response' = [resp |-> r.resp, exc |-> r.exc, calls |-> r.calls]
    /\ clock' = clock + 1
    /\ request' = [From |-> from, Body |-> body]
    /\ UNCHANGED << threads, session_obj, detached >>

Next == \E from \in Senders, body \in Bodies : Webhook(from, body)

Spec == Init /\ [][Next]_vars

(***************************************************************************)
(* The commands of the router: the same state machine, asked the bodies    *)
(* that whatsapp_webhook tells apart                                       *)
(***************************************************************************)
RouterBodies ==
    { << >>,                                                  \* no Body field
      << " ", " " >>,                                         \* blank
      << "H","e","l","p" >>,                                  \* Help
      << "S","T","A","R","T"," " >>,                          \* "START "
      << "m","e","n","u" >>,                                  \* menu
      << "R","e","g","i","s","t","e","r" >>,                  \* Register
      << "C","o","n","t","a","c","t" >>,                      \* Contact
      << "s","t","a","t","s" >>,                              \* stats
      << "n","e","a","r"," " >>,                              \* "near "
      << "N","e","a","r"," "," ","M","a","i","n" >>,          \* "Near  Main"
      << "n","e","a","r","b","y" >>,                          \* nearby
      << "c","a","n","c","e","l" >>,                          \* cancel
      << "A","b" >> }                                         \* Ab

MaxRouted == 2

Command(from, body) == clock < MaxRouted /\ Webhook(from, body)

NextRouter == \E from \in Senders, body \in RouterBodies : Command(from, body)

SpecRouter == Init /\ [][NextRouter]_vars

(***************************************************************************)
(* The presenters over a catalogue that registrations have filled: the     *)
(* same requests, from a state where the catalogue holds rows committed    *)
(* earlier.  Every row is one that a registration can commit; row i of n   *)
(* has id i and was registered n - i requests before the first request of  *)
(* the behaviour.                                                          *)
(***************************************************************************)
Kinds == {"keyword", "name", "text", "other"}

\* a row whose keywords hold 'pie', one whose name contains 'pie', one
\* whose address has the word 'pie', and one without 'pie'
RowOf(kind, i, n) ==
    LET name == IF kind = "name" THEN <<"P","i","e","m","a","n">>
                ELSE <<"Z","e","d">>
    IN  [ id            |-> i,
          name          |-> name,
          name_lower    |-> lower(name),
          address       |-> IF kind = "text"
                            THEN <<"1","2"," ","P","i","e"," ","L","a","n","e">>
                            ELSE <<"1"," ","M","a","i","n"," ","R","o","a","d">>,
          phone         |-> <<"+","1","2","3","4","5","6","7","8","9","0">>,
          email         |-> IF kind = "keyword" THEN NOT_PROVIDED
                            ELSE <<"a","@","b",".","c","o">>,
          keywords      |-> IF kind = "keyword" THEN << <<"p","i","e">>, <<"x","y">> >>
                            ELSE << <<"a","b">>, <<"c","d">>, <<"e","f">>, <<"g","h">> >>,
          registered_by |-> IF i % 2 = 1 THEN "A" ELSE "B",
          registered_at |-> i - n,
          status        |-> "active" ]

MaxRows == 3

\* the long catalogues: more rows than DisplayLimit, as many as SearchLimit,
\* and more
LongRows == {DisplayLimit + 1, SearchLimit, SearchLimit + 1}

Patterns == UNION { [1..m -> Kinds] : m \in 1..2 }

Catalogues ==
    { [i \in 1..Len(ks) |-> RowOf(ks[i], i, Len(ks))] :
        ks \in UNION { [1..n -> Kinds] : n \in 0..MaxRows } }
    \cup
    { [i \in 1..n |-> RowOf(pat[((i - 1) % Len(pat)) + 1], i, n)] :
        n \in LongRows, pat \in Patterns }

SearchBodies ==
    { << "p","i","e" >>,                                      \* pie
      << " ","P","I","E" >>,                                  \* " PIE"
      << "z","e","d" >>,                                      \* zed
      << "_" >>,                                              \* _
      << "p","%","e" >>,                                      \* p%e
      << "n","e","a","r"," ","M","a","i","n" >>,              \* near Main
      << "n","e","a","r"," ","p","i","e" >> }                 \* near pie

MaxAsked == 1

InitSearch ==
    /\ NoThreads
    /\ user_sessions = EmptyDict
    /\ businesses \in Catalogues
    /\ clock = 0
    /\ request = [From |-> "", Body |-> << >>]
    /\ response = [resp |-> << >>, exc |-> "", calls |-> << >>]

Ask(from, body) == clock < MaxAsked /\ Webhook(from, body)

\* the presenters do not look at the sender: one sender asks
NextSearch == \E body \in SearchBodies : Ask("A", body)

SpecSearch == InitSearch /\ [][NextSearch]_vars

(***************************************************************************)
(* The phone step: the same requests, from a state where sender A has      *)
(* answered the name and the address prompts, sent phone numbers made of   *)
(* digits, '+' and other characters                                        *)
(***************************************************************************)
\* every string of at most n characters of the alphabet
Strings(alphabet, n) == UNION { [1..m -> alphabet] : m \in 0..n }

MaxAffix == 2

\* eight digits with at most MaxAffix characters ahead and behind, so that
\* between 8 and 12 characters are left once the others are removed; and
\* the examples of the prompt and of section 8 of the specification
Phones ==
    { a \o <<"2","3","4","5","6","7","8","9">> \o b :
        a \in Strings({"1", "+", "-"}, MaxAffix),
        b \in Strings({"1", "+", "-"}, MaxAffix) }
    \cup
    { << "+","1","2","3","4","5","6","7","8","9","0" >>,
      << "1","2","3","4","5" >>,
      << "5","5","5","-","1","2","3","-","4","5","6","7" >>,
      << " ","0","7","1","2"," ","3","4","5"," ","6","7","8"," " >>,
      << "(","5","5","5",")"," ","1","2","3","4","5","6","7" >> }

AtPhone ==
    [ step |-> "phone",
      data |-> SetKey(SetKey(EmptyDict, "name", <<"S","K","I","P">>),
                      "address", <<"1","2"," ","M","a","i","n"," ","S","t">>) ]

InitPhone ==
    /\ NoThreads
    /\ user_sessions = SetKey(EmptyDict, "A", AtPhone)
    /\ businesses = << >>
    /\ clock = 0
    /\ request = [From |-> "", Body |-> << >>]
    /\ response = [resp |-> << >>, exc |-> "", calls |-> << >>]

MaxDialled == 1

\* a phone number sent while A is asked for one
Dial(body) ==
    /\ clock < MaxDialled
    /\ "A" \in DOMAIN user_sessions
    /\ user_sessions["A"].step = "phone"
    /\ Webhook("A", body)

NextPhone == \E body \in Phones : Dial(body)

SpecPhone == InitPhone /\ [][NextPhone]_vars

(***************************************************************************)
(* The keywords step: the same requests, from a state where sender A has   *)
(* answered the first four prompts, sent keyword lists                     *)
(***************************************************************************)
MaxTypedLen == 5

KeywordBodies ==
    Strings({"a", "B", ","}, MaxTypedLen)
    \cup
    { << "p","i","z","z","a",","," ","r","e","s","t","a","u","r","a","n","t",","," ",","," ","a",","," ","i","t","a","l","i","a","n" >>,
      << " ","a","B"," ",","," ","B","a"," " >>,
      << "a"," ","b",",","c","d","," >>,
      << "A","b",",",","," ","c"," ",",","D","E" >> }

AtKeywords ==
    [ step |-> "keywords",
      data |-> SetKey(SetKey(AtPhone.data,
                             "phone", <<"+","1","2","3","4","5","6","7","8","9","0">>),
                      "email", NOT_PROVIDED) ]

InitKeywords ==
    /\ NoThreads
    /\ user_sessions = SetKey(EmptyDict, "A", AtKeywords)
    /\ businesses = << >>
    /\ clock = 0
    /\ request = [From |-> "", Body |-> << >>]
    /\ response = [resp |-> << >>, exc |-> "", calls |-> << >>]

MaxTyped == 1

\* a keyword list sent while A is asked for one
Type(body) ==
    /\ clock < MaxTyped
    /\ "A" \in DOMAIN user_sessions
    /\ user_sessions["A"].step = "keywords"
    /\ Webhook("A", body)

NextKeywords == \E body \in KeywordBodies : Type(body)

SpecKeywords == InitKeywords /\ [][NextKeywords]_vars

(***************************************************************************)
(* Requests handled by the worker threads of the host, line by line.  One  *)
(* step of a thread is one access to user_sessions, to a session dict or   *)
(* to the store, with the local computation that follows it; the steps of  *)
(* the threads interleave, and the host may abort a request between any    *)
(* two of them.                                                            *)
(***************************************************************************)
\* the identities of the session dicts that the threads ths refer to
Refs(ths) == { ths[w].ref : w \in Workers } \ {0}

\* an identity that nothing refers to, for a new dict
FreshId ==
    LET used == Range(session_obj) \cup DOMAIN detached \cup Refs(threads)
    IN  CHOOSE k \in 1..(Cardinality(used) + 1) :
          k \notin used /\ \A j \in 1..(k - 1) : j \in used

\* a dict that no thread refers to any more is garbage
Collect(det, ths) == [k \in DOMAIN det \cap Refs(ths) |-> det[k]]

\* the dict k, got from user_sessions[f], is still the one under key f
Bound(f, k) == f \in DOMAIN user_sessions /\ session_obj[f] = k

\* the dict k as it is now
Obj(f, k) == IF Bound(f, k) THEN user_sessions[f] ELSE detached[k]

\* the state after dict k has become new
SessionsWith(f, k, new) ==
    IF Bound(f, k) THEN SetKey(user_sessions, f, new) ELSE user_sessions

DetachedWith(f, k, new) ==
    IF Bound(f, k) THEN detached ELSE SetKey(detached, k, new)

\* the dicts under no key once key f is deleted or assigned a new dict
Released(f) ==
    IF f \in DOMAIN user_sessions
    THEN SetKey(detached, session_obj[f], user_sessions[f])
    ELSE detached

\* thread w goes on as t2
Go(w, t2, sessions, objs, det, rows) ==
    /\ threads' = [threads EXCEPT ![w] = t2]
    /\ user_sessions' = sessions
    /\ session_obj' = objs
    /\ detached' = Collect(det, [threads EXCEPT ![w] = t2])
    /\ businesses' = rows
    /\ UNCHANGED << clock, request, response >>

\* thread w returns str(resp)
Done(w, resp, exc, calls, sessions, objs, det) ==
    /\ threads' = [threads EXCEPT ![w] = Idle]
    /\ user_sessions' = sessions
    /\ session_obj' = objs
    /\ detached' = Collect(det, [threads EXCEPT ![w] = Idle])
    /\ request' = [From |-> threads[w].From, Body |-> threads[w].Body]
    /\ response' = [resp |-> resp, exc |-> exc, calls |-> calls]
    /\ UNCHANGED << clock, businesses >>

\* thread w returns one message and leaves the sessions as they are
Reply(w, msg) ==
    Done(w, << msg >>, "", threads[w].calls, user_sessions, session_obj, detached)

\* an exception reaches the except of whatsapp_webhook
Apologise(w) == Reply(w, Msg("apology", << >>))

\* thread w moves to line pc
Goto(w, pc) ==
    Go(w, [threads[w] EXCEPT !.pc = pc], user_sessions, session_obj, detached,
       businesses)

MaxReceived == 2

\* the host hands a request to a free worker (the lowest: they are alike)
Receive(w, from, body) ==
    /\ clock < MaxReceived
    /\ threads[w].pc = "idle"
    /\ \A v \in Workers : v < w => threads[v].pc # "idle"
    /\ threads' = [threads EXCEPT ![w] =
                     [Idle EXCEPT !.pc = "route", !.From = from, !.Body = body]]
    /\ clock' = clock + 1
    /\ UNCHANGED << user_sessions, session_obj, detached, businesses,
                    request, response >>

\* lines 53-113: the tests of whatsapp_webhook up to the call it makes
Route(w) ==
    LET t          == threads[w]
        body       == strip(t.Body)
        body_lower == lower(body)
    IN  /\ t.pc = "route"
        /\ IF body = << >> THEN Reply(w, Msg("welcome", << >>))
           ELSE IF t.From \in DOMAIN user_sessions THEN Goto(w, "lookup")
           ELSE IF body_lower \in {HELP, START, MENU} THEN Reply(w, Msg("help", << >>))
           ELSE IF body_lower = REGISTER THEN Goto(w, "start")
           ELSE IF body_lower = CONTACT THEN Reply(w, Msg("contact", << >>))
           ELSE IF body_lower = STATS THEN Goto(w, "count")
           ELSE Goto(w, "present")

\* lines 198-213: start_registration
Start(w) ==
    LET t == threads[w]
    IN  /\ t.pc = "start"
        /\ Done(w, << Msg("step1_prompt", << >>) >>, "", t.calls,
                SetKey(user_sessions, t.From, [step |-> "name", data |-> EmptyDict]),
                SetKey(session_obj, t.From, FreshId),
                Released(t.From))

\* lines 107-113: search_by_location or search_businesses, one query each
Present(w) ==
    LET t          == threads[w]
        body_lower == lower(strip(t.Body))
        results    ==
            IF startswith(body_lower, NEAR)
            THEN search_by_location(user_sessions, businesses,
                                    strip(Slice(body_lower, 6, Len(body_lower))),
                                    << >>)
            ELSE search_businesses(user_sessions, businesses, body_lower, << >>)
    IN  /\ t.pc = "present"
        /\ \E r \in results :
             Done(w, r.resp, "", r.calls, user_sessions, session_obj, detached)

\* lines 124-148: the three queries of show_statistics, one after the other
Statistics(w) ==
    LET t == threads[w]
        asked(op, o, pc) ==
            Go(w, [t EXCEPT !.pc = pc, !.calls = Append(t.calls, Call(op, o))],
               user_sessions, session_obj, detached, businesses)
    IN  \/ /\ t.pc = "count"
           /\ \E o \in get_business_count(businesses) :
                asked("get_business_count", o, "recent")
        \/ /\ t.pc = "recent"
           /\ \E o \in get_recent_businesses(businesses, RecentLimit) :
                asked("get_recent_businesses", o, "popular")
        \/ /\ t.pc = "popular"
           /\ \E o \in get_popular_keywords(businesses, PopularLimit) :
                Done(w, << Msg("stats",
                               [ total   |-> t.calls[1].value,
                                 recent  |-> [i \in DOMAIN t.calls[2].value |->
                                                t.calls[2].value[i].name],
                                 popular |-> o.value ]) >>,
                     "", Append(t.calls, Call("get_popular_keywords", o)),
                     user_sessions, session_obj, detached)

\* line 217: session = user_sessions[from_number]
Lookup(w) ==
    LET t == threads[w]
    IN  /\ t.pc = "lookup"
        /\ IF t.From \notin DOMAIN user_sessions
           THEN Apologise(w)                                     \* KeyError
           ELSE Go(w, [t EXCEPT !.pc = "read_step", !.ref = session_obj[t.From]],
                   user_sessions, session_obj, detached, businesses)

\* what a step makes of a body: whether it takes it, and the value it stores
Taken(step, body) ==
    IF step = "name"
    THEN [ok |-> Len(strip(body)) >= MinNameLen, value |-> strip(body)]
    ELSE IF step = "address"
    THEN [ok |-> Len(strip(body)) >= MinAddressLen, value |-> strip(body)]
    ELSE IF step = "phone"
    THEN [ok |-> validate_phone(body), value |-> strip(body)]
    ELSE IF step = "email"
    THEN IF lower(body) = SKIP THEN [ok |-> TRUE, value |-> NOT_PROVIDED]
         ELSE [ok |-> validate_email(body), value |-> strip(body)]
    ELSE [ok |-> Len(parse_keywords(body)) >= MinKeywords,
          value |-> parse_keywords(body)]

\* the warning of a step
Rejection(step) ==
    IF step = "name" THEN "name_too_short"
    ELSE IF step = "address" THEN "address_too_short"
    ELSE IF step = "phone" THEN "phone_invalid"
    ELSE IF step = "email" THEN "email_invalid"
    ELSE "keywords_too_few"

\* the step after a step, and the prompt for it
Following(step) ==
    IF step = "name" THEN "address"
    ELSE IF step = "address" THEN "phone"
    ELSE IF step = "phone" THEN "email"
    ELSE "keywords"

Prompt(step, body) ==
    IF step = "name" THEN Msg("step2_prompt", strip(body))
    ELSE IF step = "address" THEN Msg("step3_prompt", << >>)
    ELSE IF step = "phone" THEN Msg("step4_prompt", << >>)
    ELSE Msg("step5_prompt", << >>)

\* lines 218-298: step = session['step'], then the tests on body
ReadStep(w) ==
    LET t    == threads[w]
        body == strip(t.Body)
        step == Obj(t.From, t.ref).step
    IN  /\ t.pc = "read_step"
        /\ IF lower(body) = CANCEL THEN Goto(w, "cancel_del")
           ELSE IF step \notin Range(Steps)                       \* line 305
           THEN Done(w, << >>, "", t.calls, user_sessions, session_obj, detached)
           ELSE IF ~Taken(step, body).ok THEN Reply(w, Msg(Rejection(step), << >>))
           ELSE Go(w, [t EXCEPT !.pc = "write_field", !.step = step, !.field = step,
                                !.value = Taken(step, body).value],
                   user_sessions, session_obj, detached, businesses)

\* line 222: del user_sessions[from_number]
CancelDel(w) ==
    LET t == threads[w]
    IN  /\ t.pc = "cancel_del"
        /\ IF t.From \notin DOMAIN user_sessions
           THEN Apologise(w)                                     \* KeyError
           ELSE Done(w, << Msg("cancelled", << >>) >>, "", t.calls,
                     DelKey(user_sessions, t.From), DelKey(session_obj, t.From),
                     Released(t.From))

\* lines 231, 246, 261, 273, 275, 301: session['data'][field] = value
WriteField(w) ==
    LET t   == threads[w]
        obj == Obj(t.From, t.ref)
        new == [obj EXCEPT !.data = SetKey(obj.data, t.field, t.value)]
    IN  /\ t.pc = "write_field"
        /\ Go(w, [t EXCEPT !.pc = IF t.step = "keywords" THEN "commit_lookup"
                                  ELSE "write_step"],
              SessionsWith(t.From, t.ref, new), session_obj,
              DetachedWith(t.From, t.ref, new), businesses)

\* lines 232, 247, 262, 280: session['step'] = ..., and the prompt
WriteStep(w) ==
    LET t   == threads[w]
        obj == Obj(t.From, t.ref)
        new == [obj EXCEPT !.step = Following(t.step)]
    IN  /\ t.pc = "write_step"
        /\ Done(w, << Prompt(t.step, t.Body) >>, "", t.calls,
                SessionsWith(t.From, t.ref, new), session_obj,
                DetachedWith(t.From, t.ref, new))

\* the lookup of the commit taking the first session there is
CommitLookup_any_session(w) ==
    LET t == threads[w]
        g == CHOOSE x \in DOMAIN user_sessions :
               \A y \in DOMAIN user_sessions : y # "A" => x = y
    IN  /\ t.pc = "commit_lookup"
        /\ IF user_sessions = EmptyDict
           THEN Goto(w, "except")
           ELSE Go(w, [t EXCEPT !.pc = "build", !.ref = session_obj[g],
                                !.doc = << >>],
                   user_sessions, session_obj, detached, businesses)

\* lines 310-311: session = user_sessions[from_number]; session['data']
CommitLookup(w) ==
    LET t == threads[w]
    IN  /\ t.pc = "commit_lookup"
        /\ IF t.From \notin DOMAIN user_sessions
           THEN Goto(w, "except")                                \* KeyError
           ELSE Go(w, [t EXCEPT !.pc = "build", !.ref = session_obj[t.From],
                                !.doc = << >>],
                   user_sessions, session_obj, detached, businesses)

\* the fields of business_doc in the order lines 315-319 read them
DocOrder == <<"name", "address", "phone", "email", "keywords">>

\* lines 315-319: one more field of business_data read into business_doc
BuildDoc(w) ==
    LET t     == threads[w]
        data  == Obj(t.From, t.ref).data
        field == DocOrder[Len(t.doc) + 1]
        doc   == Append(t.doc, data[field])
    IN  /\ t.pc = "build"
        /\ IF field \notin DOMAIN data
           THEN Goto(w, "except")                                \* KeyError
           ELSE Go(w, [t EXCEPT !.doc = doc,
                                !.pc = IF Len(doc) = Len(DocOrder) THEN "insert"
                                       ELSE "build"],
                   user_sessions, session_obj, detached, businesses)

\* line 324: business_id = db.add_business(business_doc)
Insert(w) ==
    LET t == threads[w]
        business_doc ==
            [ name          |-> t.doc[1],
              address       |-> t.doc[2],
              phone         |-> t.doc[3],
              email         |-> t.doc[4],
              keywords      |-> t.doc[5],
              registered_by |-> t.From ]
    IN  /\ t.pc = "insert"
        /\ \E o \in add_business(businesses, clock + Len(businesses), business_doc) :
             Go(w, [t EXCEPT !.pc = IF o.raised THEN "except" ELSE "commit_del",
                             !.id = o.value,
                             !.calls = Append(t.calls, Call("add_business", o))],
                user_sessions, session_obj, detached, o.businesses)

\* line 327: del user_sessions[from_number]
CommitDel(w) ==
    LET t == threads[w]
    IN  /\ t.pc = "commit_del"
        /\ IF t.From \notin DOMAIN user_sessions
           THEN Goto(w, "except")                                \* KeyError
           ELSE Go(w, [t EXCEPT !.pc = "confirm", !.info = << >>],
                   DelKey(user_sessions, t.From), DelKey(session_obj, t.From),
                   Released(t.From), businesses)

\* the fields of business_data in the order lines 335-345 read them
ConfirmOrder == <<"name", "address", "phone", "email", "keywords", "keywords">>

\* lines 330-351: one more field of business_data read into the
\* confirmation; after the last one, resp.message(confirmation)
Confirm(w) ==
    LET t     == threads[w]
        data  == Obj(t.From, t.ref).data
        field == ConfirmOrder[Len(t.info) + 1]
        info  == Append(t.info, data[field])
    IN  /\ t.pc = "confirm"
        /\ IF field \notin DOMAIN data
           THEN Goto(w, "except")                                \* KeyError
           ELSE IF Len(info) < Len(ConfirmOrder)
           THEN Go(w, [t EXCEPT !.info = info],
                   user_sessions, session_obj, detached, businesses)
           ELSE IF info[6] = << >>
           THEN Goto(w, "except")                                \* IndexError
           ELSE Reply(w, Msg("confirmation",
                             [ name     |-> info[1],
                               address  |-> info[2],
                               phone    |-> info[3],
                               email    |-> info[4],
                               keywords |-> join(COMMA_SPACE, info[5]),
                               search   |-> info[6][1],
                               business_id |-> t.id ]))

\* line 358: if from_number in user_sessions
ExceptCheck(w) ==
    LET t == threads[w]
    IN  /\ t.pc = "except"
        /\ IF t.From \in DOMAIN user_sessions
           THEN Goto(w, "except_del")
           ELSE Reply(w, Msg("registration_error", << >>))

\* lines 359-360: del user_sessions[from_number], and the failure notice
ExceptDel(w) ==
    LET t == threads[w]
    IN  /\ t.pc = "except_del"
        /\ IF t.From \notin DOMAIN user_sessions
           THEN Apologise(w)                     \* KeyError in the handler
           ELSE Done(w, << Msg("registration_error", << >>) >>, "", t.calls,
                     DelKey(user_sessions, t.From), DelKey(session_obj, t.From),
                     Released(t.From))

\* the host gives up a request (its time is over): the thread stops where
\* it is and nothing is returned
Abort(w) ==
    /\ threads[w].pc # "idle"
    /\ Done(w, << >>, "aborted", threads[w].calls,
            user_sessions, session_obj, detached)

\* the host starts the process again: the threads are gone, and line 19
\* makes user_sessions empty; the catalogue is in the database and stays
Restart ==
    /\ \E w \in Workers : threads[w].pc # "idle"
    /\ threads' = [w \in Workers |-> Idle]
    /\ user_sessions' = EmptyDict
    /\ session_obj' = EmptyDict
    /\ detached' = EmptyDict
    /\ request' = [From |-> "", Body |-> << >>]
    /\ response' = [resp |-> << >>, exc |-> "restarted", calls |-> << >>]
    /\ UNCHANGED << clock, businesses >>

AtName == [step |-> "name", data |-> EmptyDict]

\* the session of another registration, waiting for its keywords
OtherAtKeywords ==
    [ step |-> "keywords",
      data |-> [ name    |-> <<"Z","e","d">>,
                 address |-> <<"1"," ","M","a","i","n"," ","R","o","a","d">>,
                 phone   |-> <<"5","5","5","-","1","2","3","-","4","5","6","7">>,
                 email   |-> <<"a","@","b",".","c","o">> ] ]

\* the sessions of A: none, or one that is new or at keywords
SessionsOfA ==
    {EmptyDict} \cup { SetKey(EmptyDict, "A", s) : s \in {AtName, AtKeywords} }

\* A has no session or one of SessionsOfA; B has none or is at keywords
InitThreads ==
    /\ user_sessions \in
         SessionsOfA \cup { SetKey(d, "B", OtherAtKeywords) : d \in SessionsOfA }
    /\ session_obj = [f \in DOMAIN user_sessions |-> IF f = "A" THEN 1 ELSE 2]
    /\ detached = EmptyDict
    /\ threads = [w \in Workers |-> Idle]
    /\ businesses = << >>
    /\ clock = 0
    /\ request = [From |-> "", Body |-> << >>]
    /\ response = [resp |-> << >>, exc |-> "", calls |-> << >>]

ThreadBodies ==
    { << "r","e","g","i","s","t","e","r" >>,                  \* register
      << "c","a","n","c","e","l" >>,                          \* cancel
      << "a","b",",","c","d" >>,                              \* ab,cd
      << "s","t","a","t","s" >>,                              \* stats
      << "n","e","a","r"," ","a","b" >> }                     \* near ab

NextThreads ==
    \/ Restart
    \/ \E w \in Workers :
           \/ \E from \in Senders, body \in ThreadBodies : Receive(w, from, body)
           \/ Route(w)
           \/ Start(w)
           \/ Present(w)
           \/ Statistics(w)
           \/ Lookup(w)
           \/ ReadStep(w)
           \/ CancelDel(w)
           \/ WriteField(w)
           \/ WriteStep(w)
           \/ CommitLookup(w)
           \/ BuildDoc(w)
           \/ Insert(w)
           \/ CommitDel(w)
           \/ Confirm(w)
           \/ ExceptCheck(w)
           \/ ExceptDel(w)
           \/ Abort(w)

SpecThreads == InitThreads /\ [][NextThreads]_vars
(***************************************************************************)
(* Vocabulary of the properties                                            *)
(***************************************************************************)
\* the kind of the reply of the last request ("" before the first request)
Kind == IF response.resp = << >> THEN "" ELSE response.resp[1].kind

\* the trimmed body and the sender of the last request
Body == strip(request.Body)

From == request.From

\* the replies that handle_registration_step and complete_registration send
DialogueKinds ==
    { "cancelled", "name_too_short", "step2_prompt", "address_too_short",
      "step3_prompt", "phone_invalid", "step4_prompt", "email_invalid",
      "step5_prompt", "keywords_too_few", "confirmation", "registration_error" }

\* the warning re-prompt of every step
Warning ==
    [ name |-> "name_too_short", address |-> "address_too_short",
      phone |-> "phone_invalid", email |-> "email_invalid",
      keywords |-> "keywords_too_few" ]

\* the input rule of every step, as section 4.2 of the specification states it
Valid(step, text) ==
    IF step = "name" THEN Len(strip(text)) >= 2
    ELSE IF step = "address" THEN Len(strip(text)) >= 10
    ELSE IF step = "phone" THEN validate_phone(text)
    ELSE IF step = "email" THEN lower(text) = SKIP \/ validate_email(text)
    ELSE Len(parse_keywords(text)) >= 2

\* the position of a step in the order name, address, phone, email, keywords
StepNo(step) == CHOOSE i \in DOMAIN Steps : Steps[i] = step

\* the store calls of the last request that raised
Raised == { response.calls[i].op : i \in { j \in DOMAIN response.calls :
                                             response.calls[j].raised } }

(***************************************************************************)
(* C1.  Whatever the body of a message, blank bodies included, a message   *)
(* of a sender who has a session is handled by the dialogue engine: its    *)
(* reply is one of the dialogue's replies, never the welcome, help,        *)
(* contact, statistics or search reply.                                    *)
(***************************************************************************)
C1_SessionRuleFirst ==
    [][ request'.From \in DOMAIN user_sessions => Kind' \in DialogueKinds ]_vars

(***************************************************************************)
(* C2 as claimed.  Every request gets exactly one reply, no exception      *)
(* leaves whatsapp_webhook, and whenever a store call raised the reply is  *)
(* an apology (the generic one or the failure notice of the operation).    *)
(***************************************************************************)
ApologyKinds ==
    { "apology", "registration_error", "search_error", "location_error" }

C2_EveryExceptionApologised ==
    clock > 0 =>
        /\ Len(response.resp) = 1
        /\ response.exc = ""
        /\ (Raised # {} => Kind \in ApologyKinds)

(***************************************************************************)
(* C2 as amended.  Every request gets exactly one reply and no exception   *)
(* leaves whatsapp_webhook, whether its store calls succeed or fail; a     *)
(* failed insert is answered by the registration failure notice, and a     *)
(* failed count, recent or popular-keywords query degrades to a statistics *)
(* reply with reduced figures.                                             *)
(***************************************************************************)
C2_OneReplyAlways ==
    clock > 0 =>
        /\ Len(response.resp) = 1
        /\ response.exc = ""
        /\ ("add_business" \in Raised => Kind = "registration_error")
        /\ (Raised \cap {"get_business_count", "get_recent_businesses",
                         "get_popular_keywords"} # {} => Kind = "stats")

\* a request whose insert raised, answered once
C2_Witness ==
    /\ "add_business" \in Raised
    /\ Len(response.resp) = 1
    /\ Kind = "registration_error"

(***************************************************************************)
(* C3.  The step of a session only moves along name, address, phone,       *)
(* email, keywords, one step at a time; a session starts at name, and a    *)
(* session at keywords stays there until it is deleted.                    *)
(***************************************************************************)
C3_StepOrder ==
    [][ \A s \in Senders :
          /\ (s \in DOMAIN user_sessions /\ s \in DOMAIN user_sessions') =>
                \/ user_sessions'[s].step = user_sessions[s].step
                \/ /\ StepNo(user_sessions[s].step) < Len(Steps)
                   /\ user_sessions'[s].step =
                        Steps[StepNo(user_sessions[s].step) + 1]
          /\ (s \notin DOMAIN user_sessions /\ s \in DOMAIN user_sessions') =>
                user_sessions'[s].step = "name"
          /\ (s \in DOMAIN user_sessions /\ s \notin DOMAIN user_sessions') =>
                Kind' \in {"cancelled", "confirmation", "registration_error"}
      ]_vars

\* a session that has just moved from email to keywords
C3_Witness ==
    /\ Kind = "step5_prompt"
    /\ From \in DOMAIN user_sessions
    /\ user_sessions[From].step = "keywords"

(***************************************************************************)
(* C4.  A message other than cancel that fails the rule of the step its    *)
(* sender is at leaves the sessions and the catalogue unchanged and is     *)
(* answered with the warning of that step.                                 *)
(***************************************************************************)
C4_RejectionKeepsSession ==
    [][ ( /\ request'.From \in DOMAIN user_sessions
          /\ lower(Body') # CANCEL
          /\ ~Valid(user_sessions[request'.From].step, Body') ) =>
        ( /\ user_sessions' = user_sessions
          /\ businesses' = businesses
          /\ Kind' = Warning[user_sessions[request'.From].step] ) ]_vars

(***************************************************************************)
(* C5.  At every step, a message that is 'cancel' once trimmed and         *)
(* lowercased deletes the session of its sender and only that, leaves the  *)
(* catalogue as it is, and is answered with the cancellation notice.       *)
(***************************************************************************)
C5_Cancel ==
    [][ ( request'.From \in DOMAIN user_sessions /\ lower(Body') = CANCEL ) =>
        ( /\ user_sessions' = DelKey(user_sessions, request'.From)
          /\ businesses' = businesses
          /\ response'.calls = << >>
          /\ Kind' = "cancelled" ) ]_vars

\* a cancelled session that had data
C5_Witness ==
    /\ Kind = "cancelled"
    /\ lower(Body) = CANCEL
    /\ From \notin DOMAIN user_sessions
    /\ clock >= 3

(***************************************************************************)
(* C6.  When the keywords step accepts its input, exactly one insert is    *)
(* attempted and the session is gone when the reply is returned; when the  *)
(* insert fails the reply is the failure notice and the catalogue is as    *)
(* before, when it succeeds the catalogue has one more row.                *)
(***************************************************************************)
C6_CommitDeletesSession ==
    [][ ( /\ request'.From \in DOMAIN user_sessions
          /\ user_sessions[request'.From].step = "keywords"
          /\ lower(Body') # CANCEL
          /\ Valid("keywords", Body') ) =>
        ( /\ Len(response'.calls) = 1
          /\ response'.calls[1].op = "add_business"
          /\ user_sessions' = DelKey(user_sessions, request'.From)
          /\ IF response'.calls[1].raised
             THEN Kind' = "registration_error" /\ businesses' = businesses
             ELSE Kind' = "confirmation"
                  /\ Len(businesses') = Len(businesses) + 1 ) ]_vars

\* a commit whose insert failed: failure notice, no row, no session
C6_Witness ==
    /\ Kind = "registration_error"
    /\ Len(response.calls) = 1
    /\ response.calls[1].op = "add_business"
    /\ response.calls[1].raised
    /\ From \notin DOMAIN user_sessions
    /\ businesses = << >>

(***************************************************************************)
(* C7.  After a commit or a cancel the sender has no session, and a        *)
(* 'register' of a sender without a session creates a session at step      *)
(* name with empty data.                                                   *)
(***************************************************************************)
C7_FreshSession ==
    [][ /\ Kind' \in {"confirmation", "cancelled"} =>
              request'.From \notin DOMAIN user_sessions'
        /\ ( request'.From \notin DOMAIN user_sessions
             /\ lower(Body') = REGISTER ) =>
              /\ Kind' = "step1_prompt"
              /\ user_sessions' =
                   SetKey(user_sessions, request'.From,
                          [step |-> "name", data |-> EmptyDict]) ]_vars

\* a new session of a sender whose earlier session was committed
C7_Witness ==
    /\ Kind = "step1_prompt"
    /\ From \in DOMAIN user_sessions
    /\ user_sessions[From] = [step |-> "name", data |-> EmptyDict]
    /\ \E i \in DOMAIN businesses : businesses[i].registered_by = From

(***************************************************************************)
(* C8.  A 'register' of a sender who has a session does not restart the    *)
(* session: it is the input of the current step.  At step name it is       *)
(* stored as the name; at every other step it fails the rule of the step,  *)
(* and the session, with all its fields, stays as it is.                   *)
(***************************************************************************)
C8_RegisterInSession ==
    [][ ( request'.From \in DOMAIN user_sessions /\ lower(Body') = REGISTER ) =>
        LET s      == request'.From
            before == user_sessions[s]
        IN  /\ Kind' # "step1_prompt"
            /\ s \in DOMAIN user_sessions'
            /\ \A f \in DOMAIN before.data :
                 /\ f \in DOMAIN user_sessions'[s].data
                 /\ user_sessions'[s].data[f] = before.data[f]
            /\ IF before.step = "name"
               THEN /\ Kind' = "step2_prompt"
                    /\ user_sessions'[s] =
                         [step |-> "address", data |-> SetKey(before.data, "name", Body')]
               ELSE /\ Kind' = Warning[before.step]
                    /\ user_sessions'[s] = before ]_vars

\* 'register' sent at step phone: the warning of the step, the data kept
C8_Witness ==
    /\ lower(Body) = REGISTER
    /\ Kind = "phone_invalid"
    /\ From \in DOMAIN user_sessions
    /\ user_sessions[From].step = "phone"
    /\ DOMAIN user_sessions[From].data = {"name", "address"}

(***************************************************************************)
(* C9.  For a sender without a session, register, a valid name, a valid    *)
(* address, a valid phone, a valid email or 'skip', and a valid keyword    *)
(* list are answered by the prompts of steps 1 to 5 and, when the insert   *)
(* succeeds, by the confirmation; every accepted input is stored as typed  *)
(* (trimmed), the earlier fields are kept, and the commit adds exactly one *)
(* row, made of the accepted inputs and of the sender, and leaves no       *)
(* session.                                                                *)
(***************************************************************************)
C9_Accepts(s, b, step, field, value, next, prompt) ==
    ( /\ s \in DOMAIN user_sessions
      /\ user_sessions[s].step = step
      /\ lower(b) # CANCEL
      /\ Valid(step, b) ) =>
    ( /\ Kind' = prompt
      /\ businesses' = businesses
      /\ user_sessions' =
           SetKey(user_sessions, s,
                  [step |-> next, data |-> SetKey(user_sessions[s].data, field, value)]) )

C9_Registration ==
    [][ LET s == request'.From
            b == Body'
        IN  /\ (s \notin DOMAIN user_sessions /\ lower(b) = REGISTER) =>
                 /\ Kind' = "step1_prompt"
                 /\ user_sessions'[s] = [step |-> "name", data |-> EmptyDict]
            /\ C9_Accepts(s, b, "name", "name", b, "address", "step2_prompt")
            /\ C9_Accepts(s, b, "address", "address", b, "phone", "step3_prompt")
            /\ C9_Accepts(s, b, "phone", "phone", b, "email", "step4_prompt")
            /\ C9_Accepts(s, b, "email", "email",
                          IF lower(b) = SKIP THEN NOT_PROVIDED ELSE b,
                          "keywords", "step5_prompt")
            /\ ( /\ s \in DOMAIN user_sessions
                 /\ user_sessions[s].step = "keywords"
                 /\ lower(b) # CANCEL
                 /\ Valid("keywords", b)
                 /\ "add_business" \notin Raised' ) =>
               ( /\ Kind' = "confirmation"
                 /\ s \notin DOMAIN user_sessions'
                 /\ Len(businesses') = Len(businesses) + 1
                 /\ SubSeq(businesses', 1, Len(businesses)) = businesses
                 /\ LET row  == businesses'[Len(businesses')]
                        data == user_sessions[s].data
                    IN  /\ row.name = data["name"]
                        /\ row.address = data["address"]
                        /\ row.phone = data["phone"]
                        /\ row.email = data["email"]
                        /\ row.keywords = parse_keywords(b)
                        /\ row.registered_by = s
                        /\ response'.resp[1].info.name = row.name
                        /\ response'.resp[1].info.address = row.address
                        /\ response'.resp[1].info.phone = row.phone
                        /\ response'.resp[1].info.email = row.email
                        /\ response'.resp[1].info.keywords =
                             join(COMMA_SPACE, row.keywords) ) ]_vars

\* a registration with 'skip' committed: the row holds the sentinel
C9_Witness ==
    /\ Kind = "confirmation"
    /\ From \notin DOMAIN user_sessions
    /\ businesses # << >>
    /\ businesses[Len(businesses)].registered_by = From
    /\ businesses[Len(businesses)].email = NOT_PROVIDED
    /\ response.resp[1].info.email = NOT_PROVIDED

(***************************************************************************)
(* C10.  Every row of the catalogue has a name of trimmed length >= 2, an  *)
(* address of length >= 10, a phone that passes validate_phone, an email   *)
(* that matches the pattern or is 'Not provided', at least 2 keywords,     *)
(* each lowercase and longer than 1 character, and status active; the      *)
(* keywords of a row just committed appear in the message in that order.   *)
(***************************************************************************)
\* the words ws occur in text one after the other, from position k on
RECURSIVE InOrder(_, _, _)
InOrder(ws, text, k) ==
    IF ws = << >> THEN TRUE
    ELSE \E p \in k..(Len(text) - Len(ws[1]) + 1) :
           /\ \A i \in DOMAIN ws[1] : text[p + i - 1] = ws[1][i]
           /\ InOrder(Tail(ws), text, p + Len(ws[1]))

C10_RowsValid ==
    /\ \A i \in DOMAIN businesses :
         LET row == businesses[i]
         IN  /\ Len(strip(row.name)) >= 2
             /\ Len(row.address) >= 10
             /\ validate_phone(row.phone)
             /\ (row.email = NOT_PROVIDED \/ validate_email(row.email))
             /\ Len(row.keywords) >= 2
             /\ \A k \in DOMAIN row.keywords :
                  /\ Len(row.keywords[k]) > 1
                  /\ lower(row.keywords[k]) = row.keywords[k]
             /\ row.status = "active"
    /\ Kind = "confirmation" =>
         InOrder(businesses[Len(businesses)].keywords, lower(request.Body), 1)

\* a row with a validated email has been committed
C10_Witness ==
    /\ Kind = "confirmation"
    /\ businesses # << >>
    /\ businesses[Len(businesses)].email # NOT_PROVIDED
    /\ Len(businesses[Len(businesses)].keywords) = 2

(***************************************************************************)
(* C11.  A message of a sender without a session is classified by its      *)
(* trimmed, lowercased body, first match first: empty gets the welcome     *)
(* text; help, start and menu the help text; register starts a session;    *)
(* contact gets the support text; stats the statistics; 'near ' and more   *)
(* a location search on what follows the prefix; anything else, 'cancel'   *)
(* and a bare 'near' included, a keyword search on the whole lowercased    *)
(* body.  Only register creates a session.                                 *)
(***************************************************************************)
C11_Classification ==
    [][ request'.From \notin DOMAIN user_sessions =>
        LET b    == strip(request'.Body)
            l    == lower(b)
            info == response'.resp[1].info
            rest == strip(SubSeq(l, 6, Len(l)))
        IN  /\ Len(response'.resp) = 1
            /\ IF b = << >> THEN Kind' = "welcome"
               ELSE IF l \in {HELP, START, MENU} THEN Kind' = "help"
               ELSE IF l = REGISTER
                 THEN /\ Kind' = "step1_prompt"
                      /\ request'.From \in DOMAIN user_sessions'
               ELSE IF l = CONTACT THEN Kind' = "contact"
               ELSE IF l = STATS THEN Kind' = "stats"
               ELSE IF Len(l) >= 5 /\ SubSeq(l, 1, 5) = NEAR
                 THEN /\ Kind' \in {"location_results", "location_none"}
                      /\ info.query = rest
                      /\ Len(response'.calls) = 1
                      /\ response'.calls[1].op = "search_by_location"
               ELSE /\ Kind' \in {"search_results", "search_none"}
                    /\ info.query = l
                    /\ Len(response'.calls) = 1
                    /\ response'.calls[1].op = "search_businesses"
            /\ (l # REGISTER => user_sessions' = user_sessions) ]_vars

\* a bare 'near' of a sender without a session, answered by a keyword search
C11_Witness ==
    /\ lower(Body) = <<"n","e","a","r">>
    /\ Kind = "search_none"
    /\ response.resp[1].info.query = <<"n","e","a","r">>
    /\ From \notin DOMAIN user_sessions

(***************************************************************************)
(* C12.  Whenever the store call of a keyword search, of a location search *)
(* or of a commit fails, the reply is the apology or the failure notice of *)
(* that operation, and no exception leaves whatsapp_webhook.               *)
(***************************************************************************)
C12_StoreFailureApologised ==
    clock > 0 =>
        /\ response.exc = ""
        /\ ("search_businesses" \in Raised => Kind \in {"apology", "search_error"})
        /\ ("search_by_location" \in Raised => Kind \in {"apology", "location_error"})
        /\ ("add_business" \in Raised => Kind \in {"apology", "registration_error"})

(***************************************************************************)
(* C13.  When the host aborts a request on the commit path, the state left *)
(* behind is not half-committed: it is not the case that the record of the *)
(* aborted request is in the catalogue while the session it was committed  *)
(* from is still the sender's session, at step keywords, able to commit    *)
(* again.                                                                  *)
(***************************************************************************)
\* the request of thread record t has inserted its record
Inserted(t) ==
    \E i \in DOMAIN t.calls :
        t.calls[i].op = "add_business" /\ ~t.calls[i].raised

\* this step is the abort of the request of worker w
Aborted(w) ==
    /\ threads[w].pc # "idle"
    /\ threads'[w].pc = "idle"
    /\ response'.exc = "aborted"

C13_NoHalfCommit ==
    [][ \A w \in Workers :
          Aborted(w) /\ Inserted(threads[w]) =>
            ~ /\ \E i \in DOMAIN businesses' : businesses'[i].id = threads[w].id
              /\ threads[w].From \in DOMAIN user_sessions'
              /\ session_obj'[threads[w].From] = threads[w].ref
              /\ user_sessions'[threads[w].From].step = "keywords" ]_vars

(***************************************************************************)
(* C14.  The catalogue changes only by a successful commit, which appends  *)
(* exactly one row: no request removes a row, changes a field of a row     *)
(* that exists, or makes a row inactive.                                   *)
(***************************************************************************)
C14_CatalogFrame ==
    [][ /\ Len(businesses') >= Len(businesses)
        /\ SubSeq(businesses', 1, Len(businesses)) = businesses
        /\ \A i \in DOMAIN businesses' : businesses'[i].status = "active"
        /\ businesses' # businesses =>
             /\ Len(businesses') = Len(businesses) + 1
             /\ Kind' = "confirmation"
             /\ Len(response'.calls) = 1
             /\ response'.calls[1].op = "add_business"
             /\ ~response'.calls[1].raised ]_vars

\* a request answered with the statistics once the catalogue has a row
C14_Witness ==
    /\ businesses # << >>
    /\ Kind = "stats"
    /\ response.resp[1].info.total = 1

(***************************************************************************)
(* Vocabulary of the search properties                                     *)
(***************************************************************************)
\* the last request made exactly one store call, op, which returned
Called(op) ==
    /\ clock > 0
    /\ Len(response.calls) = 1
    /\ response.calls[1].op = op

\* what the store call of the last request returned
Fetched == response.calls[1].value

\* q occurs in s
IsSubstring(q, s) ==
    \E i \in 1..(Len(s) - Len(q) + 1) : SubSeq(s, i, i + Len(q) - 1) = q

\* the relevance tier of section 4.3: exact keyword, name contains, other
Tier(r, q) ==
    IF \E k \in DOMAIN r.keywords : r.keywords[k] = q THEN 3
    ELSE IF IsSubstring(q, r.name_lower) THEN 2
    ELSE 1

Matches(r, q) ==
    \/ \E k \in DOMAIN r.keywords : r.keywords[k] = q
    \/ IsSubstring(q, r.name_lower)
    \/ FullTextMatch(r, q)

Ahead(a, b, q) ==
    \/ Tier(a, q) > Tier(b, q)
    \/ Tier(a, q) = Tier(b, q) /\ a.registered_at >= b.registered_at

Min(a, b) == IF a <= b THEN a ELSE b

\* the labels of the lines that an entry has after name, address and phone
Labels(e) == { e.extra[k].label : k \in DOMAIN e.extra }

(***************************************************************************)
(* C15.  A keyword search for q returns only active rows that match q by   *)
(* exact keyword, by name substring or by full text, the higher tier       *)
(* first and within a tier the most recent first, at most 10 of them, and  *)
(* they are the first rows of that order.                                  *)
(***************************************************************************)
C15_SearchRanking ==
    (Called("search_businesses") /\ ~response.calls[1].raised) =>
        LET q    == lower(Body)
            res  == Fetched
            hits == { i \in DOMAIN businesses :
                        /\ businesses[i].status = "active"
                        /\ Matches(businesses[i], q) }
        IN  /\ \A i \in DOMAIN res : \E h \in hits : businesses[h] = res[i]
            /\ \A i, j \in DOMAIN res : i < j => Ahead(res[i], res[j], q)
            /\ Len(res) = Min(Cardinality(hits), 10)
            /\ \A h \in hits :
                 \/ \E i \in DOMAIN res : res[i] = businesses[h]
                 \/ \A i \in DOMAIN res : Ahead(res[i], businesses[h], q)

(***************************************************************************)
(* C16.  The list that a keyword search renders never holds two entries    *)
(* with the same business name.                                            *)
(***************************************************************************)
C16_NoDuplicateNames ==
    Kind = "search_results" =>
        LET shown == response.resp[1].info.shown
        IN  \A i, j \in DOMAIN shown : i # j => shown[i].name # shown[j].name

(***************************************************************************)
(* C17.  A keyword search and a location search that fetched n rows,       *)
(* 0 <= n <= 10, render the first min(n, 5) of them in the order fetched,  *)
(* and the '... and N more results' line exactly when n > 5, with          *)
(* N = n - 5.                                                              *)
(***************************************************************************)
C17_Rendering ==
    (Called("search_businesses") \/ Called("search_by_location")) =>
        LET n    == Len(Fetched)
            info == response.resp[1].info
        IN  /\ n <= 10
            /\ IF n = 0
               THEN Kind \in {"search_none", "location_none"}
               ELSE /\ Kind \in {"search_results", "location_results"}
                    /\ info.found = n
                    /\ Len(info.shown) = Min(n, 5)
                    /\ \A i \in DOMAIN info.shown :
                         /\ info.shown[i].name = Fetched[i].name
                         /\ info.shown[i].address = Fetched[i].address
                         /\ info.shown[i].phone = Fetched[i].phone
                    /\ info.more = IF n > 5 THEN n - 5 ELSE 0

\* a location search that fetched 10 of 11 rows: 5 shown, 5 more
C17_Witness ==
    /\ Called("search_by_location")
    /\ Len(businesses) = 11
    /\ Len(Fetched) = 10
    /\ Kind = "location_results"
    /\ Len(response.resp[1].info.shown) = 5
    /\ response.resp[1].info.more = 5

(***************************************************************************)
(* C18.  Every rendered record shows name, address and phone; the first 3  *)
(* keywords are shown by the keyword search and not by the location        *)
(* search; both show the email line exactly when the email of the row is   *)
(* not 'Not provided'.                                                     *)
(***************************************************************************)
C18_RecordLines ==
    (Called("search_businesses") \/ Called("search_by_location")) =>
        (Kind \in {"search_results", "location_results"} =>
            LET shown == response.resp[1].info.shown
            IN  \A i \in DOMAIN shown :
                  /\ shown[i].name = Fetched[i].name
                  /\ shown[i].address = Fetched[i].address
                  /\ shown[i].phone = Fetched[i].phone
                  /\ ("keywords" \in Labels(shown[i])) = (Kind = "search_results")
                  /\ \A k \in DOMAIN shown[i].extra :
                       shown[i].extra[k].label = "keywords" =>
                         shown[i].extra[k].text =
                           join(COMMA_SPACE, SubSeq(Fetched[i].keywords, 1,
                                                    Min(3, Len(Fetched[i].keywords))))
                  /\ ("email" \in Labels(shown[i])) = (Fetched[i].email # NOT_PROVIDED))

(***************************************************************************)
(* C19.  validate_phone accepts a string exactly when what is left of it   *)
(* once every character other than a digit and '+' is removed has at       *)
(* least 10 characters and starts with '+' or is all digits; the phone     *)
(* step stores the trimmed input as typed, not what is left of it.         *)
(***************************************************************************)
RECURSIVE C19_Cleaned(_)
C19_Cleaned(s) ==
    IF s = << >> THEN << >>
    ELSE (IF s[1] \in Digits \cup {"+"} THEN << s[1] >> ELSE << >>)
         \o C19_Cleaned(Tail(s))

C19_Accepted(s) ==
    LET c == C19_Cleaned(s)
    IN  /\ Len(c) >= 10
        /\ (c[1] = "+" \/ \A i \in DOMAIN c : c[i] \in Digits)

C19_PhoneStep ==
    [][ ( /\ request'.From \in DOMAIN user_sessions
          /\ user_sessions[request'.From].step = "phone"
          /\ Body' # << >>
          /\ lower(Body') # CANCEL ) =>
        LET s == request'.From
        IN  /\ validate_phone(Body') = C19_Accepted(Body')
            /\ validate_phone(request'.Body) = C19_Accepted(request'.Body)
            /\ IF C19_Accepted(Body')
               THEN /\ Kind' = "step4_prompt"
                    /\ user_sessions' =
                         SetKey(user_sessions, s,
                                [ step |-> "email",
                                  data |-> SetKey(user_sessions[s].data,
                                                  "phone", Body') ])
               ELSE /\ Kind' = "phone_invalid"
                    /\ user_sessions' = user_sessions ]_vars

\* '555-123-4567' accepted and stored with its dashes
C19_Witness ==
    /\ Kind = "step4_prompt"
    /\ "A" \in DOMAIN user_sessions
    /\ user_sessions["A"].step = "email"
    /\ user_sessions["A"].data["phone"] = <<"5","5","5","-","1","2","3","-","4","5","6","7">>

(***************************************************************************)
(* C20.  The keywords step splits its input on commas, trims and           *)
(* lowercases every token, drops the tokens of length <= 1 and keeps the   *)
(* order; it accepts exactly when at least 2 tokens are left, and the      *)
(* keywords stored are those tokens.                                       *)
(***************************************************************************)
\* the pieces of s between its commas, read from left to right
RECURSIVE C20_Scan(_, _, _)
C20_Scan(s, cur, acc) ==
    IF s = << >> THEN Append(acc, cur)
    ELSE IF s[1] = "," THEN C20_Scan(Tail(s), << >>, Append(acc, cur))
    ELSE C20_Scan(Tail(s), Append(cur, s[1]), acc)

C20_Tokens(s) ==
    LET raw     == C20_Scan(s, << >>, << >>)
        trimmed == [i \in DOMAIN raw |-> lower(strip(raw[i]))]
    IN  SelectSeq(trimmed, LAMBDA k : Len(k) >= 2)

C20_Example == <<"p","i","z","z","a",","," ","r","e","s","t","a","u","r","a","n","t",","," ",","," ","a",","," ","i","t","a","l","i","a","n">>

C20_ExampleTokens == << <<"p","i","z","z","a">>, <<"r","e","s","t","a","u","r","a","n","t">>, <<"i","t","a","l","i","a","n">> >>

C20_KeywordsStep ==
    [][ ( /\ request'.From \in DOMAIN user_sessions
          /\ user_sessions[request'.From].step = "keywords"
          /\ Body' # << >>
          /\ lower(Body') # CANCEL ) =>
        LET toks == C20_Tokens(Body')
        IN  /\ parse_keywords(Body') = toks
            /\ (Body' = C20_Example => toks = C20_ExampleTokens)
            /\ IF Len(toks) >= 2
               THEN /\ Len(response'.calls) = 1
                    /\ response'.calls[1].op = "add_business"
                    /\ ~response'.calls[1].raised =>
                         /\ Kind' = "confirmation"
                         /\ Len(businesses') = Len(businesses) + 1
                         /\ businesses'[Len(businesses')].keywords = toks
                         /\ response'.resp[1].info.keywords =
                              join(COMMA_SPACE, toks)
               ELSE /\ Kind' = "keywords_too_few"
                    /\ response'.calls = << >>
                    /\ user_sessions' = user_sessions
                    /\ businesses' = businesses ]_vars

\* 'pizza, restaurant, , a, italian' committed as pizza, restaurant, italian
C20_Witness ==
    /\ Kind = "confirmation"
    /\ request.Body = C20_Example
    /\ businesses # << >>
    /\ businesses[Len(businesses)].keywords = C20_ExampleTokens

(***************************************************************************)
(* C21.  A step of the handling of a message of sender f never creates,    *)
(* changes or deletes the session of another sender; the session dict a    *)
(* request works on is never the one of another sender; every field of a   *)
(* record is read from the dict of the request's own sender, and the       *)
(* record is registered by that sender.                                    *)
(***************************************************************************)
\* this step is a step of the request of worker w (not the end of the process)
Handles(w) ==
    /\ threads'[w] # threads[w]
    /\ ~(threads[w].pc # "idle" /\ threads'[w].pc = "idle" /\ request'.From = "")

\* the sender of the request that worker w takes or has
SenderOf(w) ==
    IF threads[w].pc = "idle" THEN threads'[w].From ELSE threads[w].From

\* the dict that thread record t works on is under the key of no other sender
OwnDict(objs, t) ==
    t.ref # 0 => \A g \in DOMAIN objs : objs[g] = t.ref => g = t.From

C21_SenderIsolation ==
    [][ \A w \in Workers : Handles(w) =>
          LET f == SenderOf(w)
              t == threads[w]
              u == threads'[w]
          IN  /\ \A g \in Senders \ {f} :
                    /\ g \in DOMAIN user_sessions' <=> g \in DOMAIN user_sessions
                    /\ g \in DOMAIN user_sessions =>
                          /\ user_sessions'[g] = user_sessions[g]
                          /\ session_obj'[g] = session_obj[g]
              /\ OwnDict(session_obj, t)
              /\ OwnDict(session_obj', u)
              /\ Len(u.doc) > Len(t.doc) =>
                    /\ t.ref # 0
                    /\ Len(u.doc) = Len(t.doc) + 1
                    /\ u.doc[Len(u.doc)] =
                         (IF f \in DOMAIN user_sessions /\ session_obj[f] = t.ref
                          THEN user_sessions[f]
                          ELSE detached[t.ref]).data[DocOrder[Len(u.doc)]]
              /\ businesses' # businesses =>
                    /\ Len(t.doc) = Len(DocOrder)
                    /\ businesses' = Append(businesses, businesses'[Len(businesses')])
                    /\ LET r == businesses'[Len(businesses')]
                       IN  /\ r.registered_by = f
                           /\ << r.name, r.address, r.phone, r.email, r.keywords >>
                                = t.doc ]_vars

\* A and B commit at the same time, and each record has its sender's name
C21_Witness ==
    /\ threads[1].pc = "confirm"
    /\ threads[2].pc = "confirm"
    /\ threads[1].From # threads[2].From
    /\ Len(businesses) = 2
    /\ \A i \in 1..2 :
          businesses[i].name =
            IF businesses[i].registered_by = "A" THEN AtKeywords.data["name"]
            ELSE OtherAtKeywords.data["name"]

(***************************************************************************)
(* C22.  One registration session inserts at most one record: when a       *)
(* request inserts the record of a session, no other request has inserted  *)
(* a record of the same session (the same dict, made by one 'register').   *)
(***************************************************************************)
C22_OneRecordPerSession ==
    [][ \A w \in Workers :
          Handles(w) /\ Len(businesses') > Len(businesses) =>
            \A v \in Workers \ {w} :
              ~ /\ Inserted(threads[v])
                /\ threads[v].From = threads[w].From
                /\ threads[v].ref = threads[w].ref ]_vars

(***************************************************************************)
(* C23.  The reply of a commit is true of the catalogue: a request that    *)
(* returns the confirmation has inserted its record, and a request that    *)
(* returns the failure notice of the registration has inserted none.       *)
(***************************************************************************)
\* this step is the return of the request of worker w with the reply kind
Returns(w, kind) ==
    /\ threads[w].pc # "idle"
    /\ threads'[w].pc = "idle"
    /\ request'.From = threads[w].From
    /\ response'.exc = ""
    /\ response'.resp # << >>
    /\ response'.resp[1].kind = kind

C23_TruthfulReply ==
    [][ \A w \in Workers :
          /\ Returns(w, "confirmation") => Inserted(threads[w])
          /\ Returns(w, "registration_error") => ~Inserted(threads[w]) ]_vars

(***************************************************************************)
(* C24.  When messages are handled one at a time, the data of a session    *)
(* has exactly the fields of the steps before its step, every stored field *)
(* passes the test of its step, and no commit fails without the insert     *)
(* having been tried.                                                      *)
(***************************************************************************)
\* the fields of the steps before step
FieldsBefore(step) ==
    { Steps[i] : i \in { j \in DOMAIN Steps : \A k \in 1..j : Steps[k] # step } }

\* the test that the step of a field makes before it stores value
Passes(field, value) ==
    IF field = "name" THEN Len(value) >= MinNameLen /\ strip(value) = value
    ELSE IF field = "address"
    THEN Len(value) >= MinAddressLen /\ strip(value) = value
    ELSE IF field = "phone" THEN validate_phone(value) /\ strip(value) = value
    ELSE IF field = "email"
    THEN value = NOT_PROVIDED \/ (validate_email(value) /\ strip(value) = value)
    ELSE FALSE

C24_SessionShape ==
    /\ \A f \in DOMAIN user_sessions :
          LET session == user_sessions[f]
          IN  /\ session.step \in Range(Steps)
              /\ DOMAIN session.data = FieldsBefore(session.step)
              /\ \A field \in DOMAIN session.data :
                    Passes(field, session.data[field])
    /\ (clock > 0 /\ Kind = "registration_error") =>
          \E i \in DOMAIN response.calls :
              response.calls[i].op = "add_business" /\ response.calls[i].raised

\* a session has reached the keywords step with its four fields stored
C24_Witness ==
    /\ Kind = "step5_prompt"
    /\ request.From \in DOMAIN user_sessions
    /\ user_sessions[request.From].step = "keywords"
    /\ DOMAIN user_sessions[request.From].data =
         {"name", "address", "phone", "email"}

=============================================================================
